---- MODULE Spec2Model ----
(***************************************************************************)
(* One run of the BHL search entrypoint (src/src/entrypoints/search_bhl.py)*)
(* as a state machine: parameter generation with its retry loop, the       *)
(* construction of the outbound query, the GET, and the interpretation of  *)
(* the response envelope (src/src/schema.py).                              *)
(*                                                                         *)
(* Python values that share a dict are tagged tuples, so that a str, an    *)
(* int and None can sit side by side: <<"str", chars>>, <<"int", n>>,      *)
(* <<"none">>.  A str is the sequence of its characters.                   *)
(***************************************************************************)
EXTENDS Integers, Sequences, FiniteSets, TLC

VARIABLES pc, env, attempts, outcome, p, params, api_params, cleaned_api_params,
          messages, gets, api_response, search_results, exc

vars == <<pc, env, attempts, outcome, p, params, api_params, cleaned_api_params,
          messages, gets, api_response, search_results, exc>>

----------------------------------------------------------------------------
(* Bounds of the model *)

\* longest search_terms list the generation service returns
MaxTerms == 2
\* largest page number the generation service returns
MaxPage == 2
\* longest Result list of a response body
MaxResults == 2

----------------------------------------------------------------------------
(* Python values *)

NoneV == <<"none">>
MISSING == <<"missing">>
StrV(s) == <<"str", s>>
IntV(n) == <<"int", n>>
ListV(l) == <<"list", l>>

\* Python truthiness of the values a parameter dict holds
Truthy(v) == ~(v = NoneV \/ v = StrV(<<>>) \/ v = IntV(0))

\* `v or ""`
OrEmpty(v) == IF Truthy(v) THEN v ELSE StrV(<<>>)

EmptyDict == [k \in {} |-> NoneV]

\* dict union `a | b` and in-place update `a |= b`: the right operand wins
Merge(a, b) == [k \in DOMAIN a \cup DOMAIN b |-> IF k \in DOMAIN b THEN b[k] ELSE a[k]]

\* {k: v for k, v in d.items() if v}
Clean(d) == [k \in {x \in DOMAIN d : Truthy(d[x])} |-> d[k]]

\* sep.join(l)
RECURSIVE Join(_, _)
Join(sep, l) ==
    IF l = <<>> THEN <<>>
    ELSE IF Len(l) = 1 THEN l[1]
    ELSE l[1] \o sep \o Join(sep, Tail(l))

----------------------------------------------------------------------------
(* Literals of the source *)

API_URL == "https://www.biodiversitylibrary.org/api3"
OR_SEP == <<" ", "O", "R", " ">>
OP_NAME == <<"P","u","b","l","i","c","a","t","i","o","n","S","e","a","r","c","h">>
FORMAT_JSON == <<"j","s","o","n">>
STATUS_OK == <<"o","k">>

DefaultPage == 1
DefaultPageSize == 100
MaxAttempts == 3

----------------------------------------------------------------------------
(* Messages sent to iChatBio, in emission order *)

LogEntry(text, args) ==
    [kind |-> "log", text |-> text, args |-> args, hasData |-> FALSE, data |-> EmptyDict]

LogData(text, data) ==
    [kind |-> "log", text |-> text, args |-> <<>>, hasData |-> TRUE, data |-> data]

Reply(text, args) == [kind |-> "reply", text |-> text, args |-> args]

Select(kind) == SelectSeq(messages, LAMBDA m : m.kind = kind)
logs == Select("log")
artifacts == Select("artifact")
replies == Select("reply")

----------------------------------------------------------------------------
(* Exceptions *)

NoExc == [type |-> "none", handled |-> TRUE, cause |-> "none", n_attempts |-> 0]

Raised(type, handled, cause, n) ==
    [type |-> type, handled |-> handled, cause |-> cause, n_attempts |-> n]

\* str(e) inside a message
ExcV(e) == <<"exc", e.type, e.cause>>

\* an exception left run() without being caught
escaped == exc.type # "none" /\ ~exc.handled

----------------------------------------------------------------------------
(* Parameter generation: LLMSimpleSearchParameters and                     *)
(* _generate_search_parameters                                             *)

TermSet == {<<>>, <<"a">>, OR_SEP}
TermLists == UNION {[1..k -> TermSet] : k \in 0..MaxTerms}
PageSizes == {0, DefaultPageSize}

\* what one completion of the generation service holds, before validation
RawCandidates ==
    [search_terms : {MISSING} \cup {ListV(l) : l \in TermLists},
     search_type : {"<missing>", "catalog", "catalog_and_full_text", "full_text"},
     page : {MISSING} \cup {IntV(n) : n \in 0..MaxPage},
     page_size : {MISSING} \cup {IntV(n) : n \in PageSizes}]

\* pydantic's validation of LLMSimpleSearchParameters: a default is not validated
Validate(raw) ==
    /\ raw.search_terms # MISSING => Len(raw.search_terms[2]) >= 1
    /\ raw.search_type # "<missing>" => raw.search_type \in {"catalog", "catalog_and_full_text"}

\* the validated model object, its defaults filled in
LLMSimpleSearchParameters(raw) ==
    [search_terms |-> IF raw.search_terms = MISSING THEN NoneV ELSE raw.search_terms,
     search_type |-> IF raw.search_type = "<missing>" THEN "C" ELSE raw.search_type,
     page |-> IF raw.page = MISSING THEN DefaultPage ELSE raw.page[2],
     page_size |-> IF raw.page_size = MISSING THEN DefaultPageSize ELSE raw.page_size[2]]

NoP == [search_terms |-> NoneV, search_type |-> "", page |-> 0, page_size |-> 0]

\* "C" if p.search_type == "catalog" else "F"
ScopeCode(search_type) == IF search_type = "catalog" THEN "C" ELSE "F"

\* variant: the separator lacks its spaces
SearchTermTight(search_terms) == Join(<<"O", "R">>, search_terms)

\* " OR ".join(p.search_terms)
SearchTerm(search_terms) == Join(OR_SEP, search_terms)

NoParams == [searchterm |-> <<>>, searchtype |-> "", page |-> 0, pageSize |-> 0]

\* SimplePublicationSearchParameters(...) of _generate_search_parameters;
\* str.join(None) raises TypeError
Synthesize(q) ==
    IF q.search_terms = NoneV
    THEN [ok |-> FALSE, error |-> "TypeError", value |-> NoParams]
    ELSE [ok |-> TRUE, error |-> "none",
          value |-> [searchterm |-> SearchTerm(q.search_terms[2]),
                     searchtype |-> ScopeCode(q.search_type),
                     page |-> q.page,
                     pageSize |-> q.page_size]]

\* the stop condition handed to the retry loop
StopOnTerminalErrorOrMaxAttempts(n, kind) == kind = "terminal" \/ n >= MaxAttempts

----------------------------------------------------------------------------
(* Outbound query *)

\* params.model_dump()
ModelDump(sp) ==
    [k \in {"searchterm", "searchtype", "page", "pageSize"} |->
        CASE k = "searchterm" -> StrV(sp.searchterm)
          [] k = "searchtype" -> StrV(<<sp.searchtype>>)
          [] k = "page" -> IntV(sp.page)
          [] k = "pageSize" -> IntV(sp.pageSize)]

FixedMarkers ==
    [k \in {"op", "format"} |-> IF k = "op" THEN StrV(OP_NAME) ELSE StrV(FORMAT_JSON)]

\* api_params of run(), before the search
BuildApiParams(sp) ==
    LET d == [k \in DOMAIN ModelDump(sp) |-> OrEmpty(ModelDump(sp)[k])]
    IN Merge(d, Merge(FixedMarkers, d))

\* variant: the failure is also sent to the user as a reply
OnGenerationFailureReplying(e) ==
    << LogEntry("str(e)", <<ExcV(e)>>), Reply("str(e)", <<ExcV(e)>>) >>

\* the except AIGenerationException branch of run()
OnGenerationFailure(e) ==
    << LogEntry("str(e)", <<ExcV(e)>>) >>

\* what run() emits between the generation and the search
OnGenerated(sp) ==
    << LogData("Generated search parameters", ModelDump(sp)),
       LogData("Sending a GET request to the BHL publication search API",
               Clean(BuildApiParams(sp))) >>


\* api_params |= {"apikey": token} of _pub_search: the dict handed in is
\* updated in place, and it is the caller's dict
PubSearchParams(query, token) == Merge(query, [k \in {"apikey"} |-> token])

\* response.raise_for_status(): anything but 2xx raises HTTPStatusError
RaiseForStatus(status_code) == ~(200 <= status_code /\ status_code <= 299)

LOG_TRANSPORT_FAILURE == "An error occurred while querying BHL"

\* variant: the failure entry carries the query as its payload
OnTransportFailureWithQuery(query) ==
    << LogData(LOG_TRANSPORT_FAILURE, query) >>

\* the except HTTPError branch of run(); query is api_params as it is then
OnTransportFailure(query) ==
    << LogEntry(LOG_TRANSPORT_FAILURE, <<>>) >>

----------------------------------------------------------------------------
(* Response envelope: schema.py *)

NoResponse == [error |-> "none", status_code |-> 0, content |-> NoneV]
NoEnvelope == [bound |-> FALSE, status |-> NoneV, error_message |-> NoneV, result |-> <<>>]

BHLTypes == {"Title", "Item", "Part"}
FoundIns == {"Metadata", "Text", "Both"}

\* Publication(**item): the two required Literal fields decide validity
ValidPublication(item) == item.BHLType \in BHLTypes /\ item.FoundIn \in FoundIns

GoodPub == [BHLType |-> "Title", FoundIn |-> "Metadata"]
BadPub == [BHLType |-> "Book", FoundIn |-> "Metadata"]

ERROR_STATUS == <<"e", "r", "r", "o", "r">>
ERROR_TEXT == <<"b", "a", "d">>

ResultLists == UNION {[1..k -> {GoodPub, BadPub}] : k \in 0..MaxResults}

\* bodies a 2xx response can carry
Bodies ==
    {<<"notjson">>} \cup
    {<<"object", o>> : o \in
        [Status : {MISSING, StrV(STATUS_OK), StrV(ERROR_STATUS)},
         ErrorMessage : {MISSING, StrV(ERROR_TEXT)},
         Result : {MISSING} \cup {ListV(l) : l \in ResultLists}]}

\* PublicationSearchResponse(**api_response.json())
PublicationSearchResponse(content) ==
    IF content = <<"notjson">>
    THEN [ok |-> FALSE, error |-> "JSONDecodeError", value |-> NoEnvelope]
    ELSE LET o == content[2]
         IN IF \/ o.Result = MISSING
               \/ \E i \in 1..Len(o.Result[2]) : ~ValidPublication(o.Result[2][i])
            THEN [ok |-> FALSE, error |-> "ValidationError", value |-> NoEnvelope]
            ELSE [ok |-> TRUE, error |-> "none",
                  value |-> [bound |-> TRUE,
                             status |-> IF o.Status = MISSING THEN NoneV ELSE o.Status,
                             error_message |-> IF o.ErrorMessage = MISSING THEN NoneV
                                               ELSE o.ErrorMessage,
                             result |-> o.Result[2]]]

\* variant: the status counts as a failure only when a message comes with it
IsApiFailureWithMessage(sr) == sr.status # StrV(STATUS_OK) /\ Truthy(sr.error_message)

\* search_results.status != "ok"
IsApiFailure(sr) == sr.status # StrV(STATUS_OK)

\* variant: the comparison admits zero
HasResultsOrNone(num_pubs) == num_pubs >= 0

\* num_pubs > 0
HasResults(num_pubs) == num_pubs > 0

Artifact(content, query) ==
    [kind |-> "artifact",
     mimetype |-> "application/json",
     description |-> "BHL search results",
     content |-> content,
     metadata |-> [data_source |-> "BHL", api_url |-> API_URL, api_parameters |-> query]]

REPLY_FOUND == "The BHL API returned {num_pubs} publications in page {params.page} (page size {params.pageSize}). The API URL I provided will not work directly, because it requires an access token parameter. To get around this, I have provided the API response in an artifact."
REPLY_NONE == "The BHL API returned no matching publications."
LOG_API_FAILURE == "Something went wrong! Message from the BHL API: {search_results.error_message}"
LOG_API_WARNING == "API returned an error message: {search_results.error_message}"

\* variant: page number and page size change places
SuccessReplySwapped(num_pubs, sp) ==
    Reply(REPLY_FOUND, <<IntV(num_pubs), IntV(sp.pageSize), IntV(sp.page)>>)

\* the success reply of run()
SuccessReply(num_pubs, sp) ==
    Reply(REPLY_FOUND, <<IntV(num_pubs), IntV(sp.page), IntV(sp.pageSize)>>)

\* run() from the status check to its end
Report(sr, sp, query, content) ==
    IF IsApiFailure(sr)
    THEN << LogEntry(LOG_API_FAILURE, <<sr.error_message>>) >>
    ELSE (IF Truthy(sr.error_message)
          THEN << LogEntry(LOG_API_WARNING, <<sr.error_message>>) >>
          ELSE <<>>)
         \o (IF HasResults(Len(sr.result))
             THEN << Artifact(content, query), SuccessReply(Len(sr.result), sp) >>
             ELSE << Reply(REPLY_NONE, <<>>) >>)

\* what the search API can answer: a network error, or a response
TransportOutcomes ==
    {[error |-> "ConnectError", status_code |-> 0, content |-> NoneV]}
    \cup {[error |-> "none", status_code |-> c, content |-> <<"notjson">>] : c \in {302, 404, 500}}
    \cup {[error |-> "none", status_code |-> 200, content |-> b] : b \in Bodies}

----------------------------------------------------------------------------
(* The run *)

API_TOKEN == <<"k", "3", "y">>


Init ==
    /\ pc = "start"
    /\ env \in {NoneV, StrV(API_TOKEN)}
    /\ attempts = 0
    /\ outcome = "none"
    /\ p = NoP
    /\ params = NoParams
    /\ api_params = EmptyDict
    /\ cleaned_api_params = EmptyDict
    /\ messages = <<>>
    /\ gets = <<>>
    /\ api_response = NoResponse
    /\ search_results = NoEnvelope
    /\ exc = NoExc

LOG_GENERATING == "Generating search parameters for BHL API"

\* run(): entering the process and its first log line
Begin ==
    /\ pc = "start"
    /\ messages' = Append(messages, LogEntry(LOG_GENERATING, <<>>))
    /\ pc' = "generating"
    /\ UNCHANGED <<env, attempts, outcome, p, params, api_params, cleaned_api_params,
                   gets, api_response, search_results, exc>>

\* variant: the except clause does not match, and the retry loop's exception
\* leaves _generate_search_parameters and run() as it is
GenerationFailsUnwrapped(n, kind) ==
    /\ exc' = Raised("InstructorRetryException", FALSE, kind, n)
    /\ messages' = messages
    /\ attempts' = 0
    /\ pc' = "done"

\* the generation call failed for good: InstructorRetryException becomes
\* AIGenerationException, which run() catches
GenerationFails(n, kind) ==
    LET e == Raised("AIGenerationException", TRUE, kind, n)
    IN /\ exc' = e
       /\ messages' = messages \o OnGenerationFailure(e)
       /\ attempts' = 0
       /\ pc' = "done"

\* one attempt whose completion fails validation
AttemptInvalid ==
    /\ pc = "generating"
    /\ \E raw \in RawCandidates : ~Validate(raw)
    /\ outcome' = "validation"
    /\ IF StopOnTerminalErrorOrMaxAttempts(attempts + 1, "validation")
       THEN GenerationFails(attempts + 1, "validation")
       ELSE /\ attempts' = attempts + 1
            /\ UNCHANGED <<pc, messages, exc>>
    /\ UNCHANGED <<env, p, params, api_params, cleaned_api_params,
                   gets, api_response, search_results>>

\* one attempt that meets a terminal error of the generation service
AttemptTerminal ==
    /\ pc = "generating"
    /\ outcome' = "terminal"
    /\ IF StopOnTerminalErrorOrMaxAttempts(attempts + 1, "terminal")
       THEN GenerationFails(attempts + 1, "terminal")
       ELSE /\ attempts' = attempts + 1
            /\ UNCHANGED <<pc, messages, exc>>
    /\ UNCHANGED <<env, p, params, api_params, cleaned_api_params,
                   gets, api_response, search_results>>

\* one attempt whose completion validates: the call returns, the parameters
\* are synthesized and run() builds the query
AttemptValid ==
    /\ pc = "generating"
    /\ \E raw \in RawCandidates :
        /\ Validate(raw)
        /\ LET q == LLMSimpleSearchParameters(raw)
               r == Synthesize(q)
           IN /\ p' = q
              /\ attempts' = 0
              /\ outcome' = "none"
              /\ IF r.ok
                 THEN /\ params' = r.value
                      /\ messages' = messages \o OnGenerated(r.value)
                      /\ api_params' = BuildApiParams(r.value)
                      /\ cleaned_api_params' = Clean(BuildApiParams(r.value))
                      /\ exc' = exc
                      /\ pc' = "searching"
                 ELSE /\ exc' = Raised(r.error, FALSE, "none", 0)
                      /\ pc' = "done"
                      /\ UNCHANGED <<params, messages, api_params, cleaned_api_params>>
    /\ UNCHANGED <<env, gets, api_response, search_results>>


\* _pub_search(api_params) and the try/except around it in run()
Search ==
    /\ pc = "searching"
    /\ \E r \in TransportOutcomes :
        LET sent == PubSearchParams(api_params, env)
        IN /\ api_params' = sent
           /\ gets' = Append(gets, sent)
           /\ IF r.error # "none" \/ RaiseForStatus(r.status_code)
              THEN /\ exc' = Raised(IF r.error # "none" THEN r.error ELSE "HTTPStatusError",
                                    TRUE, "none", 0)
                   /\ messages' = messages \o OnTransportFailure(sent)
                   /\ pc' = "done"
                   /\ UNCHANGED api_response
              ELSE /\ api_response' = r
                   /\ pc' = "interpreting"
                   /\ UNCHANGED <<exc, messages>>
    /\ UNCHANGED <<env, attempts, outcome, p, params, cleaned_api_params, search_results>>

\* run() from the parse of the response body to its end
Interpret ==
    /\ pc = "interpreting"
    /\ LET r == PublicationSearchResponse(api_response.content)
       IN IF r.ok
          THEN /\ search_results' = r.value
               /\ messages' = messages \o Report(r.value, params, api_params, api_response.content)
               /\ UNCHANGED exc
          ELSE /\ exc' = Raised(r.error, FALSE, "none", 0)
               /\ UNCHANGED <<search_results, messages>>
    /\ pc' = "done"
    /\ UNCHANGED <<env, attempts, outcome, p, params, api_params, cleaned_api_params,
                   gets, api_response>>

Next ==
    \/ Begin
    \/ AttemptInvalid
    \/ AttemptTerminal
    \/ AttemptValid
    \/ Search
    \/ Interpret

Spec == Init /\ [][Next]_vars

----------------------------------------------------------------------------
(* Claims *)

Last(seq) == seq[Len(seq)]

\* a message carries value v, in its text or in its structured payload
Mentions(m, v) ==
    \/ \E j \in 1..Len(m.args) : m.args[j] = v
    \/ \E k \in DOMAIN m.data : m.data[k] = v

\* C1: the api_parameters metadata of every artifact a run creates holds the
\* outbound query parameters only, never the apikey entry that _pub_search adds.
C1_ArtifactParamsWithoutApikey ==
    \A i \in 1..Len(messages) :
        (messages[i].kind = "artifact" /\ Truthy(env)) =>
            /\ "apikey" \notin DOMAIN messages[i].metadata.api_parameters
            /\ \A k \in DOMAIN messages[i].metadata.api_parameters :
                  messages[i].metadata.api_parameters[k] # env

\* C2: with BHL_API_KEY configured, the parameters handed to the GET hold no
\* empty or falsy value, and hold a non-empty apikey.
C2_SentParamsPruned ==
    \A i \in 1..Len(gets) :
        Truthy(env) =>
            /\ \A k \in DOMAIN gets[i] : Truthy(gets[i][k])
            /\ "apikey" \in DOMAIN gets[i]
            /\ gets[i]["apikey"] = env

\* C3: a parsed envelope whose status is not "ok" (absent included) ends the run
\* as an API failure: the failure is logged, with no artifact and no reply,
\* whatever the error message and the result list are.
C3_NotOkIsApiFailure ==
    (pc = "done" /\ search_results.bound /\ search_results.status # StrV(STATUS_OK)) =>
        /\ artifacts = <<>>
        /\ replies = <<>>
        /\ logs # <<>>
        /\ Last(messages) = LogEntry(LOG_API_FAILURE, <<search_results.error_message>>)
        /\ ~escaped

C3_Witness ==
    /\ pc = "done"
    /\ search_results.bound
    /\ search_results.status = NoneV
    /\ search_results.error_message = NoneV
    /\ Len(search_results.result) > 0
    /\ Last(messages).text = LOG_API_FAILURE

\* the generation call gave up after MaxAttempts completions that failed validation
GenerationExhausted ==
    /\ exc.type = "AIGenerationException"
    /\ exc.cause = "validation"
    /\ exc.n_attempts = MaxAttempts

\* C4 as stated: when parameter generation is exhausted the run emits no
\* artifact, no reply, exactly one log entry, and no GET.
C4_ExhaustedOneLogEntry ==
    (pc = "done" /\ GenerationExhausted) =>
        /\ artifacts = <<>>
        /\ replies = <<>>
        /\ Len(logs) = 1
        /\ gets = <<>>

\* C4 amended: when parameter generation is exhausted the run emits no
\* artifact, no reply and no GET, and exactly two log entries: the progress
\* entry logged before the generation call, then the exception's text.
C4_ExhaustedTwoLogEntries ==
    (pc = "done" /\ GenerationExhausted) =>
        /\ artifacts = <<>>
        /\ replies = <<>>
        /\ messages = << LogEntry(LOG_GENERATING, <<>>), LogEntry("str(e)", <<ExcV(exc)>>) >>
        /\ gets = <<>>

C4_Witness ==
    /\ pc = "done"
    /\ GenerationExhausted
    /\ Len(logs) = 2

TransportFailed == exc.type \in {"ConnectError", "HTTPStatusError"}

\* C5: when the GET fails at transport level the run issues no second GET,
\* ends with the generic failure log entry, creates no artifact and no reply,
\* and none of its log entries carries the credential.
C5_TransportFailureIsGeneric ==
    (pc = "done" /\ TransportFailed) =>
        /\ Len(gets) = 1
        /\ Last(messages).kind = "log"
        /\ Last(messages).text = LOG_TRANSPORT_FAILURE
        /\ artifacts = <<>>
        /\ replies = <<>>
        /\ \A i \in 1..Len(logs) : Truthy(env) => ~Mentions(logs[i], env)

C5_Witness ==
    /\ pc = "done"
    /\ exc.type = "HTTPStatusError"
    /\ env = StrV(API_TOKEN)
    /\ gets[1]["apikey"] = StrV(API_TOKEN)
    /\ Len(logs) = 4

OutcomeArtifact ==
    /\ Len(artifacts) = 1
    /\ Len(replies) = 1
    /\ replies[1].text = REPLY_FOUND

OutcomeNoResults ==
    /\ artifacts = <<>>
    /\ replies = << Reply(REPLY_NONE, <<>>) >>

OutcomeLogged ==
    /\ artifacts = <<>>
    /\ replies = <<>>
    /\ logs # <<>>

\* C6: every finished run, whichever of the four failure kinds it met
\* (generation failure, transport failure, API failure, malformed envelope),
\* ends in one of the three outcomes, and no exception leaves run().  The
\* TypeError of a completion without search_terms is none of the four kinds
\* and is left out of the statement.
C6_NoExceptionEscapes ==
    (pc = "done" /\ exc.type # "TypeError") =>
        /\ ~escaped
        /\ OutcomeArtifact \/ OutcomeNoResults \/ OutcomeLogged

\* C7: status "ok" with K > 0 publications gives exactly one artifact
\* (application/json, "BHL search results", the response content, the endpoint
\* URL in its metadata) followed by exactly one reply that states K and the
\* page number and page size of the synthesized parameters.
C7_ArtifactThenReply ==
    (/\ pc = "done"
     /\ search_results.bound
     /\ search_results.status = StrV(STATUS_OK)
     /\ Len(search_results.result) > 0) =>
        /\ Len(artifacts) = 1
        /\ Len(replies) = 1
        /\ artifacts[1].mimetype = "application/json"
        /\ artifacts[1].description = "BHL search results"
        /\ artifacts[1].content # NoneV
        /\ artifacts[1].content = api_response.content
        /\ artifacts[1].metadata.api_url = API_URL
        /\ messages[Len(messages) - 1].kind = "artifact"
        /\ Last(messages).kind = "reply"
        /\ Last(messages).text = REPLY_FOUND
        /\ Last(messages).args = << IntV(Len(search_results.result)),
                                    IntV(params.page), IntV(params.pageSize) >>
        /\ params.page = p.page
        /\ params.pageSize = p.page_size

C7_Witness ==
    /\ pc = "done"
    /\ search_results.status = StrV(STATUS_OK)
    /\ Len(search_results.result) = 2
    /\ params.page = 2
    /\ params.pageSize = DefaultPageSize
    /\ Len(artifacts) = 1
    /\ Len(replies) = 1

\* C8: status "ok" with an empty result list gives exactly one reply, the
\* "no matching publications" one, and no artifact.
C8_EmptyResultReply ==
    (/\ pc = "done"
     /\ search_results.bound
     /\ search_results.status = StrV(STATUS_OK)
     /\ search_results.result = <<>>) =>
        /\ replies = << Reply(REPLY_NONE, <<>>) >>
        /\ artifacts = <<>>

C8_Witness ==
    /\ pc = "done"
    /\ search_results.bound
    /\ search_results.status = StrV(STATUS_OK)
    /\ search_results.result = <<>>
    /\ Len(replies) = 1


\* the terms of the intermediate result the parameters were synthesized from
Terms == p.search_terms[2]

\* where term i starts in the joined string (0-based offset)
RECURSIVE Offset(_, _)
Offset(l, i) == IF i = 1 THEN 0 ELSE Offset(l, i - 1) + Len(l[i - 1]) + Len(OR_SEP)

\* s is the terms of l in order with OR_SEP between neighbours and nowhere else
IsJoined(s, l) ==
    /\ Len(s) = Offset(l, Len(l)) + Len(l[Len(l)])
    /\ \A i \in 1..Len(l) :
        SubSeq(s, Offset(l, i) + 1, Offset(l, i) + Len(l[i])) = l[i]
    /\ \A i \in 1..(Len(l) - 1) :
        SubSeq(s, Offset(l, i) + Len(l[i]) + 1, Offset(l, i + 1)) = OR_SEP

BeginsWith(s, t) == Len(s) >= Len(t) /\ SubSeq(s, 1, Len(t)) = t
EndsWith(s, t) == Len(s) >= Len(t) /\ SubSeq(s, Len(s) - Len(t) + 1, Len(s)) = t

\* C9 as stated: for N >= 1 validated terms the searchterm is the terms joined
\* in order by " OR ", and it neither begins nor ends with " OR ".
C9_JoinedWithoutOuterSeparator ==
    p.search_terms # NoneV =>
        /\ IsJoined(params.searchterm, Terms)
        /\ ~BeginsWith(params.searchterm, OR_SEP)
        /\ ~EndsWith(params.searchterm, OR_SEP)

\* C9 amended: for N >= 1 validated terms the searchterm is the terms joined
\* in order by " OR "; it does not begin with " OR " when the first term is
\* non-empty and does not begin with a space, and does not end with " OR "
\* when the last term is non-empty and does not end with a space.
C9_JoinedInOrder ==
    p.search_terms # NoneV =>
        /\ Len(Terms) >= 1
        /\ IsJoined(params.searchterm, Terms)
        /\ (Terms[1] # <<>> /\ Terms[1][1] # " ") => ~BeginsWith(params.searchterm, OR_SEP)
        /\ (Last(Terms) # <<>> /\ Last(Last(Terms)) # " ") => ~EndsWith(params.searchterm, OR_SEP)

C9_Witness ==
    /\ p.search_terms = ListV(<< <<"a">>, <<"a">> >>)
    /\ params.searchterm = <<"a", " ", "O", "R", " ", "a">>

\* C10: the scope code is "C" exactly when the intermediate scope is
\* catalog-only and "F" exactly when it is catalog+full-text, a search_type
\* left at its declared default included; nothing else is produced.
C10_ScopeMapping ==
    p.search_terms # NoneV =>
        /\ params.searchtype \in {"C", "F"}
        /\ params.searchtype = "C" <=> p.search_type = "catalog"
        /\ params.searchtype = "F" <=> p.search_type = "catalog_and_full_text"


\* C11: one call of _generate_search_parameters makes at most MaxAttempts
\* attempts; after a validation failure another attempt is pending only while
\* fewer than MaxAttempts were made, after a terminal error none is pending,
\* and a call that failed for either reason ended by raising
\* AIGenerationException.
C11_BoundedAttempts ==
    /\ attempts <= MaxAttempts
    /\ exc.n_attempts <= MaxAttempts
    /\ pc = "generating" =>
        /\ outcome # "terminal"
        /\ attempts < MaxAttempts
        /\ outcome = "validation" <=> attempts >= 1
    /\ (pc = "done" /\ outcome # "none") =>
        /\ exc.type = "AIGenerationException"
        /\ exc.cause = outcome
        /\ exc.n_attempts >= 1
        /\ outcome = "validation" => exc.n_attempts = MaxAttempts

\* a terminal error met on the second attempt ended the call, one attempt short
\* of the ceiling
C11_Witness ==
    /\ pc = "done"
    /\ outcome = "terminal"
    /\ exc.type = "AIGenerationException"
    /\ exc.n_attempts = 2


====
